---- MODULE Spec2Model ----
(***************************************************************************)
(* Model of the alldebrid-proxy download relay and gofile credential code. *)
(*                                                                         *)
(*   SpecRelay : one run of a relay generator, either                      *)
(*               app/utils/streaming.py stream_download ("streaming") or   *)
(*               the retry loop of GofileClient.stream_download ("gofile"),*)
(*               against an HTTP origin that may drop connections, answer  *)
(*               error statuses, honour a Range header (206) or ignore it  *)
(*               (200 with the whole body).                                *)
(*   SpecCred  : the GofileClient credential record shared by foreground   *)
(*               requests (ensure_valid_token, get_content_info,           *)
(*               stream_download) and the background renewal task, on a    *)
(*               clock that counts minutes.                                *)
(*   SpecShared: a GofileClient.stream_download run while other requests   *)
(*               enter and leave `async with gofile_client`.               *)
(*   SpecDebrid: the AllDebrid API calls, startup_event and the shutdown   *)
(*               of the renewal task, with gofile requests opening and     *)
(*               closing the shared session.                               *)
(*   SpecDownload: the /download handler for a gofile URL and the relay it *)
(*               returns.                                                  *)
(*   SpecRelayLive, SpecCredLive: SpecRelay and SpecCred with fairness.    *)
(***************************************************************************)
EXTENDS Integers, Sequences, FiniteSets, TLC

\* ------------------------------------------------------------------ bounds
MaxFileSize == 3
MaxRetriesArg == 1
MaxChunkArg == 2
MaxIgnoredRange == 1
NumCallers == 2
MaxTime == 10

\* ------------------------------------------------------- program constants
\* Python None for an omitted optional argument.
NoArg == -1
\* streaming.py: max_retries = max_retries or 10
STREAMING_DEFAULT_RETRIES == 10
\* config.py: MAX_RETRIES / CHUNK_SIZE defaults
MAX_RETRIES == 3
CHUNK_SIZE == 8192
\* gofile.py:46  timedelta(minutes=9)
TTL == 9
\* gofile.py:93  asyncio.sleep(5 * 60), in minutes
RENEW_PERIOD == 5
\* gofile.py:99  asyncio.sleep(60), in minutes
ERROR_DELAY == 1

VARIABLES
    impl,              \* which relay runs: "streaming" or "gofile"
    max_retries_arg,   \* caller-supplied max_retries (NoArg = None)
    chunk_size_arg,    \* caller-supplied chunk_size (NoArg = None)
    file_size,         \* length of the origin resource
    bytes_downloaded,  \* Transfer Cursor: bytes forwarded so far
    retry_count,       \* Transfer Cursor: retry counter
    rpc,               \* position of the generator
    resp_pos,          \* offset in the resource of the next byte of the open response body
    resp_status,       \* status of the response being handled (0 = none)
    range_sent,        \* offset in the Range header of the last GET (NoArg = no Range header)
    delivered,         \* every byte yielded to the consumer, in order
    outcome,           \* how the generator ended
    raised_status,     \* status_code of the HTTPException raised (0 = none)
    attempts,          \* number of GET requests issued
    all_transient,     \* no attempt so far was answered a status outside [200, 206]
    ignored_ranges,    \* origin: how many Range headers it has ignored
    mid_file_breaks,   \* every body failure so far struck at an offset N, 0 < N < file_size
    session,           \* GofileClient.session: "open", or "none" (None)
    resp_alive,        \* the connection of the open response has not been closed
    other_in,          \* another request is inside its `async with gofile_client`
    origin_failures,   \* attempts failed by the origin or the network
    token_checked,     \* gofile relay: ensure_valid_token was called since the last GET was sent
    now,               \* datetime.now(), in minutes
    token,             \* GofileClient.token (0 = None, n = the n-th token issued)
    authenticated,     \* GofileClient.authenticated
    token_last_updated,\* GofileClient.token_last_updated (NoArg = None)
    lock_holder,       \* GofileClient.token_lock: who holds it (NoArg = free)
    lock_waiters,      \* GofileClient.token_lock: FIFO queue of waiting coroutines
    cpc,               \* position of each coroutine (callers and the renewal task)
    op,                \* the operation each caller is running
    wake_at,           \* when the renewal task's sleep ends
    call,              \* per coroutine: what its current/last ensure_valid_token call did
    batch,             \* the refresh calls of the current group of overlapping callers
    stop,              \* position of stop_token_refresh_task
    cancelled_in,      \* where the renewal task was suspended when it was cancelled
    ad_authenticated,  \* AllDebridClient.authenticated
    apc,               \* position of each AllDebrid API call (unlock_link, redirector, get_link_infos)
    startup,           \* position of startup_event
    dl_pc,             \* position of the /download handler
    dl_content,        \* what get_content_info said the gofile share is ("file", "folder")
    dl_status          \* HTTP status of the handler's answer (0 = none yet)

relayVars == <<impl, max_retries_arg, chunk_size_arg, file_size, bytes_downloaded,
               retry_count, rpc, resp_pos, resp_status, range_sent, delivered,
               outcome, raised_status, attempts, all_transient, ignored_ranges,
               mid_file_breaks, session, resp_alive, other_in, origin_failures,
               token_checked>>

credVars == <<now, token, authenticated, token_last_updated, lock_holder, lock_waiters,
              cpc, op, wake_at, call, batch, stop, cancelled_in>>

debridVars == <<ad_authenticated, apc, startup>>

routeVars == <<dl_pc, dl_content, dl_status>>

vars == <<relayVars, credVars, debridVars, routeVars>>

\* ------------------------------------------------------------------ helpers
Min(a, b) == IF a < b THEN a ELSE b

\* The origin resource: byte i of the file is the value i, so that a
\* duplicated, skipped or reordered byte is visible in `delivered`.
Resource(n) == [i \in 1..n |-> i]

IsPrefix(s, t) == Len(s) <= Len(t) /\ s = SubSeq(t, 1, Len(s))

\* `x or default`: Python takes the default for None and for 0.
OrDefault(x, default) == IF x = NoArg \/ x = 0 THEN default ELSE x

\* streaming.py:12  max_retries = max_retries or 10
\* gofile.py:211    max_retries = max_retries or settings.MAX_RETRIES
max_retries ==
    IF impl = "streaming"
    THEN OrDefault(max_retries_arg, STREAMING_DEFAULT_RETRIES)
    ELSE OrDefault(max_retries_arg, MAX_RETRIES)

\* streaming.py:11 / gofile.py:210  chunk_size = chunk_size or settings.CHUNK_SIZE
chunk_size == OrDefault(chunk_size_arg, CHUNK_SIZE)

\* Statuses the origin can answer that are not 200/206.
ErrorStatuses == {403, 404, 416, 500}

\* -------------------------------------------------------------------- Init
RelayStart ==
    /\ impl \in {"streaming", "gofile"}
    /\ max_retries_arg \in {NoArg} \cup (0..MaxRetriesArg)
    /\ chunk_size_arg \in {NoArg} \cup (1..MaxChunkArg)
    /\ file_size \in 1..MaxFileSize
    /\ bytes_downloaded = 0
    /\ retry_count = 0
    /\ rpc = "loop"
    /\ resp_pos = 0
    /\ resp_status = 0
    /\ range_sent = NoArg
    /\ delivered = <<>>
    /\ outcome = "running"
    /\ raised_status = 0
    /\ attempts = 0
    /\ all_transient = TRUE
    /\ ignored_ranges = 0
    /\ mid_file_breaks = TRUE
    /\ session = "open"
    /\ resp_alive = FALSE
    /\ other_in = FALSE
    /\ origin_failures = 0
    /\ token_checked = (impl = "gofile")

\* ------------------------------------------------------------ relay steps
\* Mutant: the Range header is sent on every retry, also with nothing delivered.
RangeHeader_OnEveryRetry == IF retry_count > 0 THEN bytes_downloaded ELSE NoArg

\* The Range header of the next request (headers built at the loop head).
RangeHeader == IF bytes_downloaded > 0 THEN bytes_downloaded ELSE NoArg

\* Mutant: the failure handlers sleep and retry without counting.
RetryOrGiveUp_NoCount(giveUp, status) ==
    /\ rpc' = "sleep"
    /\ UNCHANGED <<retry_count, outcome, raised_status>>

\* Mutant: the failure handlers retry at once, without the sleep.
RetryOrGiveUp_NoBackoff(giveUp, status) ==
    /\ retry_count' = retry_count + 1
    /\ IF retry_count + 1 <= max_retries
       THEN /\ rpc' = "loop"
            /\ UNCHANGED <<outcome, raised_status>>
       ELSE /\ rpc' = "done"
            /\ outcome' = giveUp
            /\ raised_status' = status

\* The failure handlers: retry_count += 1; if retry_count <= max_retries,
\* sleep(1) and continue, else give up.  The handlers around the body
\* iteration give up with a plain `return`; the handlers around the request
\* give up by raising HTTPException(status_code=500).
RetryOrGiveUp(giveUp, status) ==
    /\ retry_count' = retry_count + 1
    /\ IF retry_count + 1 <= max_retries
       THEN /\ rpc' = "sleep"
            /\ UNCHANGED <<outcome, raised_status>>
       ELSE /\ rpc' = "done"
            /\ outcome' = giveUp
            /\ raised_status' = status

\* The session a request goes through: streaming.py opens its own for each
\* attempt (streaming.py:32); GofileClient uses self.session, which
\* stream_download opens once, before the loop (gofile.py:203, 237), as it
\* calls ensure_valid_token once, before the loop (gofile.py:204).
SessionUsable == impl = "gofile" => session = "open"

\* The loop head `while retry_count <= max_retries` is part of the guard of
\* each request step below: every `continue` is taken with the condition
\* true, so the loop is never left through its condition.

\* session.get(...) fails before a response arrives (connect error, timeout).
GetConnectFails ==
    /\ rpc = "loop"
    /\ SessionUsable
    /\ retry_count <= max_retries
    /\ attempts' = attempts + 1
    /\ range_sent' = RangeHeader
    /\ resp_status' = 0
    /\ RetryOrGiveUp("raised", 500)
    /\ UNCHANGED <<impl, max_retries_arg, chunk_size_arg, file_size, bytes_downloaded,
                   resp_pos, delivered, all_transient, ignored_ranges>>
    /\ UNCHANGED mid_file_breaks
    /\ origin_failures' = origin_failures + 1
    /\ UNCHANGED <<session, resp_alive, other_in>>
    /\ token_checked' = FALSE
    /\ UNCHANGED <<credVars, debridVars, routeVars>>

\* The origin answers a status outside [200, 206].  The code raises
\* (HTTPException in streaming.py, Exception in gofile.py) inside the outer
\* try, so the raise lands in the outer `except Exception` handler.
GetRejected(s) ==
    /\ rpc = "loop"
    /\ SessionUsable
    /\ retry_count <= max_retries
    /\ s \in ErrorStatuses
    /\ s = 416 => bytes_downloaded > 0
    /\ attempts' = attempts + 1
    /\ range_sent' = RangeHeader
    /\ resp_status' = s
    /\ all_transient' = FALSE
    /\ RetryOrGiveUp("raised", 500)
    /\ UNCHANGED <<impl, max_retries_arg, chunk_size_arg, file_size, bytes_downloaded,
                   resp_pos, delivered, ignored_ranges>>
    /\ UNCHANGED mid_file_breaks
    /\ origin_failures' = origin_failures + 1
    /\ UNCHANGED <<session, resp_alive, other_in>>
    /\ token_checked' = FALSE
    /\ UNCHANGED <<credVars, debridVars, routeVars>>

\* The origin answers 200 or 206 and the relay starts reading the body.
\*   200: the whole resource (to a request without Range, or ignoring Range);
\*   206: the resource from the requested offset (only to a satisfiable Range).
GetAccepted(s) ==
    /\ rpc = "loop"
    /\ SessionUsable
    /\ retry_count <= max_retries
    /\ s \in {200, 206}
    /\ s = 206 => (bytes_downloaded > 0 /\ bytes_downloaded < file_size)
    /\ IF s = 200 /\ bytes_downloaded > 0
       THEN /\ ignored_ranges < MaxIgnoredRange
            /\ ignored_ranges' = ignored_ranges + 1
       ELSE UNCHANGED ignored_ranges
    /\ attempts' = attempts + 1
    /\ range_sent' = RangeHeader
    /\ resp_status' = s
    /\ resp_pos' = IF s = 206 THEN bytes_downloaded ELSE 0
    /\ rpc' = "body"
    /\ UNCHANGED <<impl, max_retries_arg, chunk_size_arg, file_size, bytes_downloaded,
                   retry_count, delivered, outcome, raised_status, all_transient>>
    /\ UNCHANGED mid_file_breaks
    /\ resp_alive' = TRUE
    /\ UNCHANGED <<session, other_in, origin_failures>>
    /\ token_checked' = FALSE
    /\ UNCHANGED <<credVars, debridVars, routeVars>>

\* One iteration of `async for chunk in response.content.iter_chunked(chunk_size)`:
\* a chunk of n <= chunk_size bytes; `if chunk:` counts and yields it.
ReadChunk(n) ==
    /\ rpc = "body"
    /\ resp_alive
    /\ n \in 0..Min(chunk_size, file_size - resp_pos)
    /\ n = 0 \/ resp_pos < file_size
    /\ resp_pos' = resp_pos + n
    /\ IF n > 0
       THEN /\ bytes_downloaded' = bytes_downloaded + n
            /\ delivered' = delivered \o SubSeq(Resource(file_size), resp_pos + 1, resp_pos + n)
       ELSE UNCHANGED <<bytes_downloaded, delivered>>
    /\ UNCHANGED <<impl, max_retries_arg, chunk_size_arg, file_size, retry_count, rpc,
                   resp_status, range_sent, outcome, raised_status, attempts,
                   all_transient, ignored_ranges>>
    /\ UNCHANGED mid_file_breaks
    /\ UNCHANGED <<session, resp_alive, other_in, origin_failures>>
    /\ UNCHANGED token_checked
    /\ UNCHANGED <<credVars, debridVars, routeVars>>

\* The body ends: the async for is exhausted and the generator returns.
BodyComplete ==
    /\ rpc = "body"
    /\ resp_alive
    /\ resp_pos = file_size
    /\ rpc' = "done"
    /\ outcome' = "completed"
    /\ UNCHANGED <<impl, max_retries_arg, chunk_size_arg, file_size, bytes_downloaded,
                   retry_count, resp_pos, resp_status, range_sent, delivered,
                   raised_status, attempts, all_transient, ignored_ranges>>
    /\ UNCHANGED mid_file_breaks
    /\ UNCHANGED <<session, resp_alive, other_in, origin_failures>>
    /\ UNCHANGED token_checked
    /\ UNCHANGED <<credVars, debridVars, routeVars>>

\* The body breaks (ClientPayloadError, ClientConnectionError, TimeoutError,
\* or any other Exception): both inner handlers count a retry and, when the
\* budget is spent, `return`.  A response whose connection was closed under
\* it can only break.
BodyFails ==
    /\ rpc = "body"
    /\ mid_file_breaks' = (mid_file_breaks /\ 0 < resp_pos /\ resp_pos < file_size)
    /\ RetryOrGiveUp("returned", 0)
    /\ UNCHANGED <<impl, max_retries_arg, chunk_size_arg, file_size, bytes_downloaded,
                   resp_pos, resp_status, range_sent, delivered, attempts,
                   all_transient, ignored_ranges>>
    /\ origin_failures' = IF resp_alive THEN origin_failures + 1 ELSE origin_failures
    /\ UNCHANGED <<session, resp_alive, other_in>>
    /\ UNCHANGED token_checked
    /\ UNCHANGED <<credVars, debridVars, routeVars>>

\* await asyncio.sleep(1); continue
Backoff ==
    /\ rpc = "sleep"
    /\ rpc' = "loop"
    /\ UNCHANGED <<impl, max_retries_arg, chunk_size_arg, file_size, bytes_downloaded,
                   retry_count, resp_pos, resp_status, range_sent, delivered,
                   outcome, raised_status, attempts, all_transient, ignored_ranges>>
    /\ UNCHANGED mid_file_breaks
    /\ UNCHANGED <<session, resp_alive, other_in, origin_failures>>
    /\ UNCHANGED token_checked
    /\ UNCHANGED <<credVars, debridVars, routeVars>>

RelayNext ==
    \/ GetConnectFails
    \/ \E s \in ErrorStatuses : GetRejected(s)
    \/ \E s \in {200, 206} : GetAccepted(s)
    \/ \E n \in 0..MaxFileSize : ReadChunk(n)
    \/ BodyComplete
    \/ BodyFails
    \/ Backoff

\* ------------------------------------------------- the shared gofile session
\* gofile.py:237 with self.session None: `self.session.get` raises
\* AttributeError before any request is sent; the outer `except Exception`
\* (gofile.py:280-289) counts a retry.
GetNoSession ==
    /\ rpc = "loop"
    /\ retry_count <= max_retries
    /\ impl = "gofile"
    /\ session = "none"
    /\ RetryOrGiveUp("raised", 500)
    /\ UNCHANGED <<impl, max_retries_arg, chunk_size_arg, file_size, bytes_downloaded,
                   resp_pos, resp_status, range_sent, delivered, attempts, all_transient,
                   ignored_ranges, mid_file_breaks, session, resp_alive, other_in,
                   origin_failures>>
    /\ UNCHANGED token_checked
    /\ UNCHANGED <<credVars, debridVars, routeVars>>

\* Another request enters `async with gofile_client` (browse.py:24,
\* download.py:27): __aenter__ -> create_session, gofile.py:29-33.
OtherEnters ==
    /\ ~other_in
    /\ other_in' = TRUE
    /\ session' = "open"
    /\ UNCHANGED <<impl, max_retries_arg, chunk_size_arg, file_size, bytes_downloaded,
                   retry_count, rpc, resp_pos, resp_status, range_sent, delivered,
                   outcome, raised_status, attempts, all_transient, ignored_ranges,
                   mid_file_breaks, resp_alive, origin_failures>>
    /\ UNCHANGED token_checked
    /\ UNCHANGED <<credVars, debridVars, routeVars>>

\* That request leaves its `async with`: __aexit__ -> close_session,
\* gofile.py:35-39, closes the session, and with it the connection of every
\* response obtained through it, and sets self.session = None.
OtherExits ==
    /\ other_in
    /\ other_in' = FALSE
    /\ session' = "none"
    /\ resp_alive' = IF session = "open" THEN FALSE ELSE resp_alive
    /\ UNCHANGED <<impl, max_retries_arg, chunk_size_arg, file_size, bytes_downloaded,
                   retry_count, rpc, resp_pos, resp_status, range_sent, delivered,
                   outcome, raised_status, attempts, all_transient, ignored_ranges,
                   mid_file_breaks, origin_failures>>
    /\ UNCHANGED token_checked
    /\ UNCHANGED <<credVars, debridVars, routeVars>>

SharedNext ==
    \/ RelayNext
    \/ GetNoSession
    \/ OtherEnters
    \/ OtherExits

\* ===================================================== gofile credentials
Callers == 1..NumCallers
\* The coroutine of token_refresh_scheduler.
Bg == 0
Procs == Callers \cup {Bg}

\* Mutant: a token is still valid at an age of exactly the TTL.
TokenValid_Inclusive(tok, tlu, t) ==
    IF tok = 0 \/ tlu = NoArg THEN FALSE ELSE t - tlu <= TTL

\* gofile.py:41-46
TokenValid(tok, tlu, t) ==
    IF tok = 0 \/ tlu = NoArg THEN FALSE ELSE t - tlu < TTL

is_token_valid == TokenValid(token, token_last_updated, now)

\* Coroutines inside `async with self.token_lock`, or queued for it.
Inside == {p \in Procs : cpc[p] \in {"waiting", "granted", "refreshing"}}

\* The renewal task has been cancelled and has not run since: its next step
\* receives CancelledError at the point where it is suspended.
CancelPending == stop = "awaiting" /\ cpc[Bg] # "finished"

\* What one ensure_valid_token call did: the get_token POSTs it sent, whether
\* one of them ended without a token, how it ended, and what the operation
\* did next (dispatch: "none", "refused" = raised for lack of authentication,
\* "valid" / "expired" = sent its GET with a valid / an invalid token).
FreshCall == [posts |-> 0, failed |-> FALSE, ended |-> "none", dispatch |-> "none"]

\* The refresh calls of a group of overlapping ensure_valid_token calls:
\* how many POSTs (counted up to 2), whether one ended without a token,
\* whether one obtained a token, whether one was sent after that, and the
\* tokens the returning callers found in the record.
FreshBatch == [calls |-> 0, unfinished |-> FALSE, succeeded |-> FALSE, late |-> FALSE,
               invalid_start |-> ~is_token_valid, seen |-> {}, members |-> {}]

\* A group of overlapping ensure_valid_token calls starts when a coroutine
\* enters while no other is inside.
CurBatch == IF Inside = {} THEN FreshBatch ELSE batch

\* What a coroutine does once ensure_valid_token has returned:
\*   the renewal task sleeps (gofile.py:93);
\*   get_content_info / stream_download test self.authenticated
\*   (gofile.py:119, 206) and either raise or dispatch their GET.
AfterEnsure(p, o, auth) ==
    IF p = Bg THEN "sleeping"
    ELSE IF auth THEN "get" ELSE "idle"

Dispatch(p, o, tok, auth, tlu) ==
    IF p = Bg THEN "none"
    ELSE IF ~auth THEN "refused"
    ELSE IF TokenValid(tok, tlu, now) THEN "valid" ELSE "expired"

\* Leave `async with self.token_lock` (the lock passes to the first waiter)
\* and run on to the coroutine's next suspension point, with the credential
\* record as the refresh, if any, left it.
ReturnFromEnsure(p, o, tok, auth, tlu, b, cl) ==
    /\ token' = tok
    /\ authenticated' = auth
    /\ token_last_updated' = tlu
    /\ lock_holder' = IF lock_waiters = <<>> THEN NoArg ELSE Head(lock_waiters)
    /\ lock_waiters' = IF lock_waiters = <<>> THEN <<>> ELSE Tail(lock_waiters)
    /\ cpc' = [q \in Procs |->
                 IF q = p THEN AfterEnsure(p, o, auth)
                 ELSE IF lock_waiters # <<>> /\ q = Head(lock_waiters) THEN "granted"
                 ELSE cpc[q]]
    /\ call' = [call EXCEPT ![p] = [cl EXCEPT !.ended = "returned",
                                              !.dispatch = Dispatch(p, o, tok, auth, tlu)]]
    /\ batch' = [b EXCEPT !.seen = @ \cup {tok}]
    /\ op' = [op EXCEPT ![p] = IF AfterEnsure(p, o, auth) = "idle" THEN "none" ELSE o]
    /\ wake_at' = IF p = Bg THEN now + RENEW_PERIOD ELSE 0

\* get_token: the POST to /accounts is sent, with the lock held.
IssuePost(p, o, b, cl) ==
    /\ lock_holder' = p
    /\ cpc' = [cpc EXCEPT ![p] = "refreshing"]
    /\ call' = [call EXCEPT ![p] = [cl EXCEPT !.posts = @ + 1]]
    /\ batch' = [b EXCEPT !.calls = Min(@ + 1, 2), !.late = b.succeeded]
    /\ op' = [op EXCEPT ![p] = o]
    /\ wake_at' = 0
    /\ UNCHANGED <<token, authenticated, token_last_updated, lock_waiters>>

\* Mutant: no re-test of is_token_valid under the lock.
UnderLock_NoRecheck(p, o, b, cl) == IssuePost(p, o, b, cl)

\* gofile.py:84-86, with the lock held.
UnderLock(p, o, b, cl) ==
    IF is_token_valid
    THEN ReturnFromEnsure(p, o, token, authenticated, token_last_updated, b, cl)
    ELSE IssuePost(p, o, b, cl)

\* Mutant: the refresh is not guarded by token_lock.
ensure_valid_token_NoLock(p, o) ==
    UnderLock(p, o, [CurBatch EXCEPT !.members = @ \cup {p}], FreshCall)

\* gofile.py:83  async with self.token_lock: take the lock if it is free,
\* otherwise queue behind the holder.
ensure_valid_token(p, o) ==
    IF lock_holder = NoArg /\ lock_waiters = <<>>
    THEN UnderLock(p, o, [CurBatch EXCEPT !.members = @ \cup {p}], FreshCall)
    ELSE /\ lock_waiters' = Append(lock_waiters, p)
         /\ cpc' = [cpc EXCEPT ![p] = "waiting"]
         /\ call' = [call EXCEPT ![p] = FreshCall]
         /\ batch' = [CurBatch EXCEPT !.members = @ \cup {p}]
         /\ op' = [op EXCEPT ![p] = o]
         /\ wake_at' = 0
         /\ UNCHANGED <<token, authenticated, token_last_updated, lock_holder>>

\* A foreground request ("request"): get_content_info or stream_download,
\* which begin alike (ensure_session, ensure_valid_token, the test of
\* self.authenticated, the GET).
CallerStart(c, o) ==
    /\ c \in Callers
    /\ cpc[c] = "idle"
    /\ ensure_valid_token(c, o)
    /\ UNCHANGED <<now, relayVars, debridVars, routeVars, stop, cancelled_in>>

\* A queued coroutine is resumed holding the lock.
LockGranted(p) ==
    /\ p \in Procs
    /\ cpc[p] = "granted"
    /\ p = Bg => ~CancelPending
    /\ UnderLock(p, op[p], batch, call[p])
    /\ UNCHANGED <<now, relayVars, debridVars, routeVars, stop, cancelled_in>>

\* Mutant: the token is stored without its timestamp.
RefreshSucceeds_StaleTimestamp(p) ==
    /\ p \in Procs
    /\ cpc[p] = "refreshing"
    /\ p = Bg => ~CancelPending
    /\ ReturnFromEnsure(p, op[p], token + 1, TRUE, token_last_updated,
                        [batch EXCEPT !.succeeded = TRUE], call[p])
    /\ UNCHANGED <<now, relayVars, debridVars, routeVars, stop, cancelled_in>>

\* get_token, gofile.py:66-73: status 200 and body "ok".
RefreshSucceeds(p) ==
    /\ p \in Procs
    /\ cpc[p] = "refreshing"
    /\ p = Bg => ~CancelPending
    /\ ReturnFromEnsure(p, op[p], token + 1, TRUE, now,
                        [batch EXCEPT !.succeeded = TRUE], call[p])
    /\ UNCHANGED <<now, relayVars, debridVars, routeVars, stop, cancelled_in>>

\* Mutant: a refresh that obtains no token marks the client unauthenticated.
RefreshFails_Deauthenticates(p) ==
    /\ p \in Procs
    /\ cpc[p] = "refreshing"
    /\ p = Bg => ~CancelPending
    /\ ReturnFromEnsure(p, op[p], token, FALSE, token_last_updated,
                        [batch EXCEPT !.unfinished = TRUE],
                        [call[p] EXCEPT !.failed = TRUE])
    /\ UNCHANGED <<now, relayVars, debridVars, routeVars, stop, cancelled_in>>

\* get_token, gofile.py:75-79: any other answer, or an exception; returns
\* False, which ensure_valid_token drops.
RefreshFails(p) ==
    /\ p \in Procs
    /\ cpc[p] = "refreshing"
    /\ p = Bg => ~CancelPending
    /\ ReturnFromEnsure(p, op[p], token, authenticated, token_last_updated,
                        [batch EXCEPT !.unfinished = TRUE],
                        [call[p] EXCEPT !.failed = TRUE])
    /\ UNCHANGED <<now, relayVars, debridVars, routeVars, stop, cancelled_in>>

\* The authenticated GET of get_content_info / stream_download ends.
GetReturns(c) ==
    /\ c \in Callers
    /\ cpc[c] = "get"
    /\ cpc' = [cpc EXCEPT ![c] = "idle"]
    /\ op' = [op EXCEPT ![c] = "none"]
    /\ UNCHANGED <<now, token, authenticated, token_last_updated, lock_holder,
                   lock_waiters, wake_at, call, batch, relayVars, debridVars, routeVars, stop, cancelled_in>>

\* Mutant: start_token_refresh_task creates a task without looking at the
\* one it has.
StartTask_Unconditional ==
    /\ stop # "awaiting"
    /\ cpc' = [cpc EXCEPT ![Bg] = "created"]
    /\ stop' = "idle"
    /\ cancelled_in' = "none"
    /\ UNCHANGED <<now, token, authenticated, token_last_updated, lock_holder,
                   lock_waiters, op, wake_at, call, batch, relayVars, debridVars, routeVars>>

\* start_token_refresh_task, gofile.py:101-105.
StartTask ==
    /\ cpc[Bg] \in {"none", "finished"}
    /\ stop # "awaiting"
    /\ cpc' = [cpc EXCEPT ![Bg] = "created"]
    /\ stop' = "idle"
    /\ cancelled_in' = "none"
    /\ UNCHANGED <<now, token, authenticated, token_last_updated, lock_holder,
                   lock_waiters, op, wake_at, call, batch, relayVars, debridVars, routeVars>>

\* Mutant: a due timer wakes the task although it has been cancelled.
SchedulerPass_IgnoresCancel ==
    /\ \/ cpc[Bg] = "created"
       \/ cpc[Bg] = "sleeping" /\ now >= wake_at
    /\ ensure_valid_token(Bg, "renew")
    /\ UNCHANGED <<now, relayVars, debridVars, routeVars, stop, cancelled_in>>

\* token_refresh_scheduler: the first pass of `while True`, and every pass
\* after the five-minute sleep.
SchedulerPass ==
    /\ ~CancelPending
    /\ \/ cpc[Bg] = "created"
       \/ cpc[Bg] = "sleeping" /\ now >= wake_at
    /\ ensure_valid_token(Bg, "renew")
    /\ UNCHANGED <<now, relayVars, debridVars, routeVars, stop, cancelled_in>>

\* stop_token_refresh_task, gofile.py:107-110: cancel the task and start
\* awaiting it.
StopTask ==
    /\ stop # "awaiting"
    /\ cpc[Bg] \notin {"none", "finished"}
    /\ stop' = "awaiting"
    /\ cancelled_in' = cpc[Bg]
    /\ UNCHANGED <<now, token, authenticated, token_last_updated, lock_holder,
                   lock_waiters, cpc, op, wake_at, call, batch, relayVars, debridVars, routeVars>>

\* Mutant: the cancelled task ends without leaving `async with
\* self.token_lock`.
TaskCancelled_KeepsLock ==
    /\ CancelPending
    /\ cpc' = [cpc EXCEPT ![Bg] = "finished"]
    /\ batch' = IF cpc[Bg] = "refreshing" THEN [batch EXCEPT !.unfinished = TRUE] ELSE batch
    /\ call' = IF cpc[Bg] = "refreshing"
               THEN [call EXCEPT ![Bg] = [@ EXCEPT !.failed = TRUE, !.ended = "cancelled"]]
               ELSE call
    /\ wake_at' = 0
    /\ UNCHANGED <<now, token, authenticated, token_last_updated, op, relayVars, debridVars, routeVars,
                   stop, cancelled_in, lock_holder, lock_waiters>>

\* The cancelled task runs: CancelledError reaches it at its suspension
\* point, unwinds the `async with` (get_token's `except Exception` does not
\* catch it) and ends the loop (gofile.py:94-96).  A task cancelled before
\* its first step never enters the `try`.
TaskCancelled ==
    /\ CancelPending
    /\ LET rest == SelectSeq(lock_waiters, LAMBDA q : q # Bg)
           held == lock_holder = Bg
       IN /\ lock_holder' = IF ~held THEN lock_holder
                            ELSE IF rest = <<>> THEN NoArg ELSE Head(rest)
          /\ lock_waiters' = IF held /\ rest # <<>> THEN Tail(rest) ELSE rest
          /\ cpc' = [q \in Procs |->
                       IF q = Bg THEN "finished"
                       ELSE IF held /\ rest # <<>> /\ q = Head(rest) THEN "granted"
                       ELSE cpc[q]]
    /\ batch' = IF cpc[Bg] = "refreshing" THEN [batch EXCEPT !.unfinished = TRUE] ELSE batch
    /\ call' = IF cpc[Bg] = "refreshing"
               THEN [call EXCEPT ![Bg] = [@ EXCEPT !.failed = TRUE, !.ended = "cancelled"]]
               ELSE call
    /\ wake_at' = 0
    /\ UNCHANGED <<now, token, authenticated, token_last_updated, op, relayVars, debridVars, routeVars,
                   stop, cancelled_in>>

\* gofile.py:110-111: `await self.token_refresh_task` ends once the task is
\* done: with the task's result when the loop ended by `break`, with
\* CancelledError when the task was cancelled before it entered the `try`.
StopReturns ==
    /\ stop = "awaiting"
    /\ cpc[Bg] = "finished"
    /\ stop' = IF cancelled_in = "created" THEN "raised" ELSE "returned"
    /\ cancelled_in' = "none"
    /\ UNCHANGED <<now, token, authenticated, token_last_updated, lock_holder,
                   lock_waiters, cpc, op, wake_at, call, batch, relayVars, debridVars, routeVars>>

\* A minute passes; the records of what the calls of the past minute did
\* are cleared.  Coroutines that are ready to run do so first, network
\* calls end within the session timeout (gofile.py:32, total=30 s), and a
\* due timer fires before the clock moves on.
Tick ==
    /\ now < MaxTime
    /\ \A p \in Procs : cpc[p] \in {"idle", "none", "finished", "sleeping"}
    /\ stop # "awaiting"
    /\ cpc[Bg] = "sleeping" => now < wake_at
    /\ now' = now + 1
    /\ call' = [p \in Procs |-> FreshCall]
    /\ batch' = [FreshBatch EXCEPT !.invalid_start = FALSE]
    /\ UNCHANGED <<token, authenticated, token_last_updated, lock_holder, lock_waiters,
                   cpc, op, wake_at, relayVars, debridVars, routeVars, stop, cancelled_in>>

CredNext ==
    \/ \E c \in Callers : CallerStart(c, "request")
    \/ \E p \in Procs : LockGranted(p)
    \/ \E p \in Procs : RefreshSucceeds(p)
    \/ \E p \in Procs : RefreshFails(p)
    \/ \E c \in Callers : GetReturns(c)
    \/ StartTask
    \/ SchedulerPass
    \/ StopTask
    \/ TaskCancelled
    \/ StopReturns
    \/ Tick

\* ============================================== AllDebrid client, startup
\* unlock_link / redirector / get_link_infos, alldebrid.py:56-57 (92-93,
\* 121-122): `if not self.authenticated: await self.authenticate()`, whose
\* GET /user is then in flight; otherwise the call's own request is sent.
ApiCallStart(c) ==
    /\ c \in Callers
    /\ apc[c] = "idle"
    /\ apc' = [apc EXCEPT ![c] = IF ad_authenticated THEN "calling" ELSE "authenticating"]
    /\ UNCHANGED <<ad_authenticated, startup, relayVars, credVars, routeVars>>

\* authenticate, alldebrid.py:41-46: status 200 and "success"; the call goes
\* on to its own request.
AuthenticateSucceeds(c) ==
    /\ c \in Callers
    /\ apc[c] = "authenticating"
    /\ ad_authenticated' = TRUE
    /\ apc' = [apc EXCEPT ![c] = "calling"]
    /\ UNCHANGED <<startup, relayVars, credVars, routeVars>>

\* Mutant: a failed authenticate clears the flag.
AuthenticateFails_ClearsFlag(c) ==
    /\ c \in Callers
    /\ apc[c] = "authenticating"
    /\ apc' = [apc EXCEPT ![c] = "idle"]
    /\ ad_authenticated' = FALSE
    /\ UNCHANGED <<startup, relayVars, credVars, routeVars>>

\* authenticate, alldebrid.py:48-52: returns False; the call tests
\* self.authenticated again (alldebrid.py:59) and raises, unless another
\* call has authenticated meanwhile.
AuthenticateFails(c) ==
    /\ c \in Callers
    /\ apc[c] = "authenticating"
    /\ apc' = [apc EXCEPT ![c] = IF ad_authenticated THEN "calling" ELSE "idle"]
    /\ UNCHANGED <<ad_authenticated, startup, relayVars, credVars, routeVars>>

\* The call's own request ends.
ApiCallReturns(c) ==
    /\ c \in Callers
    /\ apc[c] = "calling"
    /\ apc' = [apc EXCEPT ![c] = "idle"]
    /\ UNCHANGED <<ad_authenticated, startup, relayVars, credVars, routeVars>>

\* startup_event, events.py:11-18: start_token_refresh_task (a task is
\* created unless one is alive) and the GET of alldebrid authenticate is
\* sent.
StartupBegins ==
    /\ startup = "none"
    /\ startup' = "authenticating"
    /\ cpc' = [cpc EXCEPT ![Bg] = IF @ \in {"none", "finished"} THEN "created" ELSE @]
    /\ UNCHANGED <<now, token, authenticated, token_last_updated, lock_holder,
                   lock_waiters, op, wake_at, call, batch, stop, cancelled_in>>
    /\ UNCHANGED <<ad_authenticated, apc, relayVars, routeVars>>

\* events.py:18-21: authenticate returned True.
StartupAuthenticated ==
    /\ startup = "authenticating"
    /\ startup' = "ok"
    /\ ad_authenticated' = TRUE
    /\ UNCHANGED <<apc, relayVars, credVars, routeVars>>

\* events.py:19-24: authenticate returned False; startup_event raises.
StartupFails ==
    /\ startup = "authenticating"
    /\ startup' = "failed"
    /\ UNCHANGED <<ad_authenticated, apc, relayVars, credVars, routeVars>>

DebridNext ==
    \/ \E c \in Callers : ApiCallStart(c)
    \/ \E c \in Callers : AuthenticateSucceeds(c)
    \/ \E c \in Callers : AuthenticateFails(c)
    \/ \E c \in Callers : ApiCallReturns(c)
    \/ StartupBegins
    \/ StartupAuthenticated
    \/ StartupFails
    \/ SchedulerPass
    \/ RefreshSucceeds(Bg)
    \/ RefreshFails(Bg)
    \/ Tick
    \/ StopTask
    \/ TaskCancelled
    \/ StopReturns
    \/ OtherEnters
    \/ OtherExits

\* ==================================================== /download, gofile URL
\* download.py:27-45, a direct gofile download URL: inside `async with
\* gofile_client` the handler returns StreamingResponse(stream_download(..));
\* __aexit__ closes the session on the way out, and the generator has not
\* run yet.
DownloadDirect ==
    /\ dl_pc = "idle"
    /\ dl_pc' = "responding"
    /\ dl_status' = 200
    /\ session' = "none"
    /\ UNCHANGED <<dl_content, impl, max_retries_arg, chunk_size_arg, file_size,
                   bytes_downloaded, retry_count, rpc, resp_pos, resp_status, range_sent,
                   delivered, outcome, raised_status, attempts, all_transient,
                   ignored_ranges, mid_file_breaks, resp_alive, other_in, origin_failures,
                   token_checked, credVars, debridVars>>

\* download.py:47-51, a gofile share URL: __aenter__ opens the session and
\* get_content_info's GET is in flight.
DownloadShare ==
    /\ dl_pc = "idle"
    /\ dl_pc' = "info"
    /\ session' = "open"
    /\ UNCHANGED <<dl_content, dl_status, impl, max_retries_arg, chunk_size_arg, file_size,
                   bytes_downloaded, retry_count, rpc, resp_pos, resp_status, range_sent,
                   delivered, outcome, raised_status, attempts, all_transient,
                   ignored_ranges, mid_file_breaks, resp_alive, other_in, origin_failures,
                   token_checked, credVars, debridVars>>

\* download.py:51-73, 100-102: get_content_info returns.  For a folder the
\* handler raises HTTPException(400) inside its `try`; `except Exception`
\* catches it and raises HTTPException(500).  For a file it returns the
\* StreamingResponse.  Either way __aexit__ closes the session.
ContentInfoReturns(t) ==
    /\ dl_pc = "info"
    /\ t \in {"file", "folder"}
    /\ dl_content' = t
    /\ dl_pc' = IF t = "folder" THEN "done" ELSE "responding"
    /\ dl_status' = IF t = "folder" THEN 500 ELSE 200
    /\ session' = "none"
    /\ UNCHANGED <<impl, max_retries_arg, chunk_size_arg, file_size,
                   bytes_downloaded, retry_count, rpc, resp_pos, resp_status, range_sent,
                   delivered, outcome, raised_status, attempts, all_transient,
                   ignored_ranges, mid_file_breaks, resp_alive, other_in, origin_failures,
                   token_checked, credVars, debridVars>>

\* get_content_info raises (gofile.py:137-147): download.py:100-102 answers
\* 500.
ContentInfoFails ==
    /\ dl_pc = "info"
    /\ dl_pc' = "done"
    /\ dl_status' = 500
    /\ session' = "none"
    /\ UNCHANGED <<dl_content, impl, max_retries_arg, chunk_size_arg, file_size,
                   bytes_downloaded, retry_count, rpc, resp_pos, resp_status, range_sent,
                   delivered, outcome, raised_status, attempts, all_transient,
                   ignored_ranges, mid_file_breaks, resp_alive, other_in, origin_failures,
                   token_checked, credVars, debridVars>>

\* The StreamingResponse starts to iterate the generator:
\* GofileClient.stream_download(url) with no chunk_size and no max_retries
\* runs ensure_session and ensure_valid_token and reaches its loop
\* (gofile.py:203-216), for an origin resource of n bytes.
StreamingBegins(n) ==
    /\ dl_pc = "responding"
    /\ n \in 1..MaxFileSize
    /\ dl_pc' = "done"
    /\ file_size' = n
    /\ rpc' = "loop"
    /\ session' = "open"
    /\ token_checked' = TRUE
    /\ UNCHANGED <<dl_content, dl_status, impl, max_retries_arg, chunk_size_arg,
                   bytes_downloaded, retry_count, resp_pos, resp_status, range_sent,
                   delivered, outcome, raised_status, attempts, all_transient,
                   ignored_ranges, mid_file_breaks, resp_alive, other_in, origin_failures,
                   credVars, debridVars>>

DownloadNext ==
    \/ DownloadDirect
    \/ DownloadShare
    \/ \E t \in {"file", "folder"} : ContentInfoReturns(t)
    \/ ContentInfoFails
    \/ \E n \in 1..MaxFileSize : StreamingBegins(n)
    \/ RelayNext

\* ------------------------------------------------------------------- Init
RouteStart ==
    /\ dl_pc = "idle"
    /\ dl_content = "none"
    /\ dl_status = 0

DebridStart ==
    /\ ad_authenticated = FALSE
    /\ apc = [c \in Callers |-> "idle"]
    /\ startup = "none"

CredStart ==
    /\ now = 0
    /\ token = 0
    /\ authenticated = FALSE
    /\ token_last_updated = NoArg
    /\ lock_holder = NoArg
    /\ lock_waiters = <<>>
    /\ cpc = [p \in Procs |-> IF p = Bg THEN "none" ELSE "idle"]
    /\ op = [p \in Procs |-> IF p = Bg THEN "renew" ELSE "none"]
    /\ wake_at = 0
    /\ call = [p \in Procs |-> FreshCall]
    /\ batch = [FreshBatch EXCEPT !.invalid_start = FALSE]
    /\ stop = "idle"
    /\ cancelled_in = "none"

\* No relay runs.
RelayParked ==
    /\ impl = "gofile"
    /\ max_retries_arg = NoArg
    /\ chunk_size_arg = NoArg
    /\ file_size = 1
    /\ bytes_downloaded = 0
    /\ retry_count = 0
    /\ rpc = "off"
    /\ resp_pos = 0
    /\ resp_status = 0
    /\ range_sent = NoArg
    /\ delivered = <<>>
    /\ outcome = "running"
    /\ raised_status = 0
    /\ attempts = 0
    /\ all_transient = TRUE
    /\ ignored_ranges = 0
    /\ mid_file_breaks = TRUE
    /\ session = "none"
    /\ resp_alive = FALSE
    /\ other_in = FALSE
    /\ origin_failures = 0
    /\ token_checked = FALSE

RelayInit == RelayStart /\ CredStart /\ DebridStart /\ RouteStart

\* A GofileClient.stream_download run, with other requests on the client.
SharedInit == RelayStart /\ impl = "gofile" /\ CredStart /\ DebridStart /\ RouteStart

CredInit == CredStart /\ RelayParked /\ DebridStart /\ RouteStart

\* The application before startup_event, no relay running.
DebridInit == CredStart /\ RelayParked /\ DebridStart /\ RouteStart

\* A /download request for a gofile URL arrives, no relay running.
DownloadInit == CredStart /\ RelayParked /\ DebridStart /\ RouteStart

\* =================================================================== claims

\* C1: whatever mid-stream interruptions struck at offsets 0 < N < file size
\* and whatever responses the relay accepted, the chunks yielded across all
\* attempts concatenate to a contiguous prefix of the origin resource (no
\* byte twice, skipped or out of order), and to the whole resource when the
\* body was read to its end.
C1_ContiguousPrefix ==
    mid_file_breaks =>
        /\ IsPrefix(delivered, Resource(file_size))
        /\ outcome = "completed" => delivered = Resource(file_size)

\* C2: a relay run that ends without having read the body to completion
\* ends with an error for the consumer, never with a normal end-of-stream.
C2_NoSilentTruncation ==
    (rpc = "done" /\ outcome # "completed") => outcome = "raised"

\* C3: for every caller-supplied max_retries >= 0 the relay issues at most
\* max_retries + 1 GET requests.
C3_AttemptBound ==
    max_retries_arg >= 0 => attempts <= max_retries_arg + 1

\* C4: with max_retries = R and every attempt ending in a transient failure,
\* the relay makes exactly R + 1 attempts and ends with an error.
C4_ExactAttemptsThenError ==
    (rpc = "done" /\ outcome # "completed" /\ all_transient /\ max_retries_arg >= 0)
        => (attempts = max_retries_arg + 1 /\ outcome = "raised")

\* C5: when a resume attempt of streaming.py stream_download is answered
\* 416, the run ends there with an error: the relay does not go on to
\* another attempt and the retry counter keeps its value.
C5_RangeNotSatisfiableIsFatal ==
    [][(/\ impl = "streaming"
        /\ attempts' = attempts + 1
        /\ range_sent' # NoArg
        /\ resp_status' = 416)
          => (rpc' = "done" /\ outcome' = "raised" /\ retry_count' = retry_count)]_vars

\* C6: when an attempt is answered 403 or 404, the run ends there with an
\* error that carries that status: the relay does not go on to another
\* attempt.
C6_ErrorStatusIsFatal ==
    [][(attempts' = attempts + 1 /\ resp_status' \in {403, 404})
          => (rpc' = "done" /\ outcome' = "raised" /\ raised_status' = resp_status')]_vars

\* C7 (as stated): for overlapping ensure_valid_token calls that started on
\* an invalid token, exactly one get_token POST is sent, no caller returns
\* before it, and all callers find the same token.
C7_ExactlyOneRefresh ==
    batch.invalid_start =>
        /\ batch.calls <= 1
        /\ batch.seen # {} => batch.calls = 1
        /\ Cardinality(batch.seen) <= 1

\* C7 (amended): for overlapping ensure_valid_token calls that started on an
\* invalid token, no get_token POST is sent after one has obtained a token;
\* if no POST ended without a token, exactly one POST is sent, no caller
\* returns before it, and every caller finds its token, valid, in the record.
C7_OneRefreshUnlessFailed ==
    batch.invalid_start =>
        /\ ~batch.late
        /\ ~batch.unfinished =>
              /\ batch.calls <= 1
              /\ batch.seen # {} =>
                    (batch.calls = 1 /\ batch.seen = {token} /\ is_token_valid)

\* C7 witness: every caller took part in one group of overlapping calls on
\* an invalid token, one POST was sent and succeeded, and all have returned.
C7_Witness ==
    /\ batch.invalid_start
    /\ Callers \subseteq batch.members
    /\ batch.calls = 1
    /\ batch.succeeded
    /\ ~batch.unfinished
    /\ \A c \in Callers : cpc[c] = "idle" /\ call[c].ended = "returned"
    /\ \E c \in Callers : call[c].posts = 0

\* C8: at most one get_token call is in flight at any time.
C8_AtMostOneRefreshInFlight ==
    Cardinality({p \in Procs : cpc[p] = "refreshing"}) <= 1

\* C8 witness: a refresh is in flight while a foreground request and the
\* renewal task both want the token.
C8_Witness ==
    /\ \E p \in Procs : cpc[p] = "refreshing"
    /\ \E c \in Callers : cpc[c] \in {"refreshing", "waiting"} /\ op[c] = "request"
    /\ cpc[Bg] \in {"refreshing", "waiting"}

\* C9: an ensure_valid_token call whose refresh failed ends by raising to
\* its caller, after exactly one get_token call.
C9_RefreshFailurePropagates ==
    \A c \in Callers :
        (call[c].failed /\ call[c].ended # "none")
            => (call[c].ended = "raised" /\ call[c].posts = 1)

\* C10: with the renewal task running, get_content_info and stream_download
\* never dispatch their GET with an invalid (expired or absent) token: when
\* the record holds no valid token after ensure_valid_token, they raise
\* instead.
C10_NoDispatchOnInvalidToken ==
    \A c \in Callers :
        (/\ cpc[Bg] \notin {"none", "finished"}
         /\ op[c] = "request"
         /\ call[c].ended = "returned"
         /\ ~is_token_valid)
            => cpc[c] # "get"

\* The current group of overlapping calls began on a token whose TTL had
\* elapsed (tokens are numbered from 1 in the order they were obtained).
ExpiredStart ==
    /\ batch.invalid_start
    /\ token >= (IF batch.succeeded THEN 2 ELSE 1)

\* C11 as stated: when a call that began after the TTL had elapsed has
\* dispatched its authenticated GET, its group of overlapping calls has sent
\* exactly one get_token POST.
C11_ExactlyOneNewRefresh ==
    \A c \in Callers :
        (cpc[c] = "get" /\ c \in batch.members /\ ExpiredStart)
            => batch.calls = 1

\* C11: when a call that began after the TTL had elapsed has dispatched its
\* authenticated GET, a get_token POST has been sent and has ended, the
\* call itself sent at most one, none was sent after one obtained a token,
\* and if none of them failed there was exactly one and the record holds
\* the token it obtained, stamped with the current time.
C11_OneNewRefreshUnlessFailed ==
    \A c \in Callers :
        (cpc[c] = "get" /\ c \in batch.members /\ ExpiredStart)
            => /\ batch.calls >= 1
               /\ call[c].posts <= 1
               /\ lock_holder # c
               /\ ~batch.late
               /\ ~batch.unfinished
                    => (batch.calls = 1 /\ is_token_valid /\ token_last_updated = now)

\* C11 witness: a call made on an expired token sent the one POST of its
\* group, obtained a token and dispatched its GET.
C11_Witness ==
    \E c \in Callers :
        /\ cpc[c] = "get"
        /\ c \in batch.members
        /\ ExpiredStart
        /\ batch.succeeded
        /\ batch.calls = 1
        /\ call[c].posts = 1

\* C12: authenticated implies a token and a timestamp; the token and its
\* timestamp are present together, and every step that changes one of
\* token, token_last_updated, authenticated stores a new token with the
\* current time and authenticated = TRUE.
C12_RecordConsistent ==
    /\ [](authenticated => (token # 0 /\ token_last_updated # NoArg))
    /\ []((token # 0) <=> (token_last_updated # NoArg))
    /\ [][(token' # token \/ token_last_updated' # token_last_updated
                           \/ authenticated' # authenticated)
             => (token' # token /\ token_last_updated' = now /\ authenticated')]_vars

\* C12 witness: a second token has been stored, with the time it was
\* obtained at.
C12_Witness ==
    /\ authenticated
    /\ token >= 2
    /\ now > 0
    /\ token_last_updated = now

\* C13: a get_token call that ends without a token leaves token,
\* token_last_updated and authenticated as they were.
C13_FailedRefreshKeepsRecord ==
    [][(\E p \in Procs : cpc[p] = "refreshing" /\ call'[p].failed /\ ~call[p].failed)
         => UNCHANGED <<token, token_last_updated, authenticated>>]_vars

\* C13 witness: a refresh failed on an expired token, and the record still
\* holds that token and says authenticated.
C13_Witness ==
    \E p \in Procs :
        /\ call[p].failed
        /\ call[p].ended = "returned"
        /\ authenticated
        /\ token >= 1
        /\ now - token_last_updated >= TTL

\* C14: ensure_valid_token sends a get_token POST exactly when no token or
\* no timestamp exists or now - token_last_updated is at least the TTL: a
\* POST is in flight only then, and a call that returned without sending
\* one found a token younger than the TTL.
C14_ValidIffYoungerThanTTL ==
    \A p \in Procs :
        /\ cpc[p] = "refreshing"
             => (token = 0 \/ token_last_updated = NoArg \/ now - token_last_updated >= TTL)
        /\ (call[p].ended = "returned" /\ call[p].posts = 0)
             => (token # 0 /\ token_last_updated # NoArg /\ now - token_last_updated < TTL)

\* C14 witness: a call made at an age of exactly the TTL is refreshing.
C14_Witness ==
    \E p \in Procs :
        /\ cpc[p] = "refreshing"
        /\ token # 0
        /\ token_last_updated # NoArg
        /\ now - token_last_updated = TTL

\* C15: a renewal task cancelled in its sleep makes no further pass and
\* sends no POST before it ends, and stop_token_refresh_task leaves its
\* await only when the task is done, returning normally.
C15_CancelledInSleepStops ==
    /\ [][(stop = "awaiting" /\ cancelled_in = "sleeping")
             => /\ cpc'[Bg] \in {"sleeping", "finished"}
                /\ call'[Bg].posts = call[Bg].posts
                /\ stop' # "awaiting" => (cpc[Bg] = "finished" /\ stop' = "returned")]_vars
    /\ [](stop = "returned" => cpc[Bg] = "finished")

\* C15 witness: the task, cancelled in its sleep after at least one renewal
\* period, has ended, and stop_token_refresh_task is about to leave its
\* await.
C15_Witness ==
    /\ stop = "awaiting"
    /\ cancelled_in = "sleeping"
    /\ cpc[Bg] = "finished"
    /\ now >= RENEW_PERIOD

\* C16: a GofileClient.stream_download run consumes a retry only for an
\* attempt that the origin or the network failed, whatever other requests
\* on the same client do (entering or leaving `async with gofile_client`).
C16_RelayUnaffectedByOthers ==
    retry_count = origin_failures

\* C17: a relay run that read a body to its end has delivered exactly as
\* many bytes as the origin resource is long (the length it advertises).
C17_DeliveredEqualsLength ==
    outcome = "completed" => Len(delivered) = file_size

\* C18: every relay run ends (completed, returned or raised), and every
\* failed attempt adds one to the retry counter.
C18_RelayTerminates ==
    /\ <>(rpc = "done")
    /\ [][((rpc = "body" \/ rpc = "loop") /\ rpc' \in {"sleep", "done"} /\ outcome' # "completed")
             => retry_count' = retry_count + 1]_vars

\* C18 witness: a run that ended by exhausting its retries after at least
\* one retry.
C18_Witness ==
    /\ rpc = "done"
    /\ outcome \in {"returned", "raised"}
    /\ retry_count = max_retries + 1
    /\ attempts >= 2

\* C19: bytes_downloaded is 0 at the start, never decreases, is the number
\* of bytes forwarded (an empty chunk changes nothing), and a request
\* carries `Range: bytes=<bytes_downloaded>-` if and only if
\* bytes_downloaded > 0.
C19_TransferCursor ==
    /\ [](bytes_downloaded = Len(delivered))
    /\ [][bytes_downloaded' >= bytes_downloaded]_vars
    /\ [][attempts' = attempts + 1
             => /\ (range_sent' # NoArg) <=> (bytes_downloaded > 0)
                /\ range_sent' # NoArg => range_sent' = bytes_downloaded]_vars

\* C19 witness: a retry after a failure with nothing delivered has asked for
\* the full resource, without a Range header.
C19_Witness ==
    /\ retry_count >= 1
    /\ attempts >= 2
    /\ bytes_downloaded = 0
    /\ range_sent = NoArg
    /\ rpc = "body"

\* C20: the body of a response is read on an attempt that sent a Range
\* header only if the response is 206; a 200 is accepted only on an attempt
\* without Range.
C20_FullContentOnlyWithoutRange ==
    (rpc = "body" /\ range_sent # NoArg) => resp_status = 206

\* C21: a relay called without max_retries, of either implementation, sends
\* at most MAX_RETRIES + 1 GET requests.
C21_DefaultRetryBound ==
    max_retries_arg = NoArg => attempts <= MAX_RETRIES + 1

\* C22: when the renewal task's refresh has ended without a token, the
\* task's sleep before its next pass is the error delay, not the renewal
\* period.
C22_ShortDelayAfterFailedRefresh ==
    (cpc[Bg] = "sleeping" /\ call[Bg].failed /\ call[Bg].ended = "returned")
        => wake_at <= now + ERROR_DELAY

\* C23: while the renewal task sleeps between passes, its last pass having
\* found or obtained a valid token, the token in the record is valid.
C23_NeverExpiredWhileRenewing ==
    (/\ cpc[Bg] = "sleeping"
     /\ token # 0
     /\ TokenValid(token, token_last_updated, wake_at - RENEW_PERIOD))
        => is_token_valid

\* C24: every GET that a GofileClient.stream_download run sends, the first
\* and every resume attempt, is sent after an ensure_valid_token call made
\* since the run's previous GET.
C24_ValidityCheckedBeforeEachGet ==
    [][(impl = "gofile" /\ attempts' = attempts + 1) => token_checked]_vars

\* C25: a step taken while the token is valid starts no get_token POST and
\* leaves token, token_last_updated and authenticated unchanged; this holds
\* in particular for a caller resumed with the lock after another caller's
\* refresh.
C25_ValidTokenNoRefresh ==
    [][is_token_valid
         => /\ UNCHANGED <<token, token_last_updated, authenticated>>
            /\ \A p \in Procs : cpc'[p] # "refreshing"
            /\ \A p \in Procs : call'[p].posts <= call[p].posts]_vars

\* C25 witness: a caller that queued for the lock behind a refresh that
\* succeeded has its GET in flight without having sent a POST.
C25_Witness ==
    \E c \in Callers :
        /\ cpc[c] = "get"
        /\ call[c].ended = "returned"
        /\ call[c].posts = 0
        /\ c \in batch.members
        /\ batch.invalid_start
        /\ batch.succeeded
        /\ is_token_valid

\* C27: a failed attempt that leaves retries goes to the backoff sleep, a
\* request is sent at the loop head, which after the first attempt is
\* reached only from the sleep, and the failure that exhausts the budget
\* ends the run: no sleep and no request follow.
C27_OneBackoffBetweenAttempts ==
    /\ [][(retry_count' = retry_count + 1)
             => IF retry_count' <= max_retries THEN rpc' = "sleep" ELSE rpc' = "done"]_vars
    /\ [][(rpc' = "loop" /\ rpc # "loop") => (rpc = "sleep" /\ retry_count' = retry_count)]_vars
    /\ [][(attempts' # attempts) => (rpc = "loop" /\ attempts' = attempts + 1)]_vars
    /\ [][(rpc = "done") => (rpc' = "done" /\ attempts' = attempts)]_vars

\* C27 witness: the loop head after two failed attempts and two sleeps.
C27_Witness ==
    /\ rpc = "loop"
    /\ attempts = 2
    /\ retry_count = 2

\* C28: at most one authenticate request of the AllDebrid API calls is in
\* flight at a time.
C28_OneAuthenticateInFlight ==
    Cardinality({c \in Callers : apc[c] = "authenticating"}) <= 1

\* C29: stop_token_refresh_task never ends by raising.
C29_StopReturnsNormally ==
    stop # "raised"

\* C26: the lock is held or queued for only by coroutines inside
\* ensure_valid_token, it is free when none is inside, and every coroutine
\* that entered ensure_valid_token leaves it: by returning, or, for the
\* renewal task, by being cancelled.
C26_LockAlwaysReleased ==
    /\ [](lock_holder # NoArg => cpc[lock_holder] \in {"granted", "refreshing"})
    /\ [](Inside = {} => (lock_holder = NoArg /\ lock_waiters = <<>>))
    /\ \A p \in Procs : (p \in Inside) ~> (p \notin Inside)

\* C26 witness: the renewal task was cancelled in its refresh call with a
\* caller queued for the lock, and the caller now holds the lock.
C26_Witness ==
    \E c \in Callers :
        /\ cancelled_in = "refreshing"
        /\ cpc[Bg] = "finished"
        /\ call[Bg].ended = "cancelled"
        /\ lock_holder = c
        /\ cpc[c] \in {"granted", "refreshing"}

\* C30: once startup_event has failed, no renewal task is alive.
C30_NoTaskAfterFailedStartup ==
    startup = "failed" => cpc[Bg] \in {"none", "finished"}

\* C31: at most one renewal task is alive: start_token_refresh_task creates
\* a task only when there is none or the last one has ended, and once
\* stop_token_refresh_task has ended no task is running.
C31_AtMostOneRenewalTask ==
    /\ [][(cpc'[Bg] = "created" /\ cpc[Bg] # "created")
             => cpc[Bg] \in {"none", "finished"}]_vars
    /\ [](stop \in {"returned", "raised"} => cpc[Bg] = "finished")

\* C31 witness: stop_token_refresh_task has returned after the task had
\* renewed the token at least once, and the task has ended.
C31_Witness ==
    /\ stop = "returned"
    /\ cpc[Bg] = "finished"
    /\ token >= 1
    /\ now >= RENEW_PERIOD

\* C32: every GET that a GofileClient.stream_download run dispatches, its
\* retries included, finds self.session an open session, whatever other
\* requests do with create_session and close_session.
C32_DispatchOnOpenSession ==
    [][(impl = "gofile" /\ rpc = "loop" /\ rpc' # "loop") => session = "open"]_vars

\* C33: on both clients `authenticated`, once true, stays true, and the
\* gofile client's token and token_last_updated, once set, stay set:
\* across failed refreshes, token expiry, session close and shutdown.
C33_AuthenticatedMonotone ==
    [][/\ authenticated => authenticated'
       /\ ad_authenticated => ad_authenticated'
       /\ token # 0 => token' # 0
       /\ token_last_updated # NoArg => token_last_updated' # NoArg]_vars

\* C33 witness: both clients are authenticated, the gofile token has
\* expired, its latest refresh has failed, a request has closed the session
\* and stop_token_refresh_task has ended.
C33_Witness ==
    /\ authenticated
    /\ ad_authenticated
    /\ token # 0
    /\ token_last_updated # NoArg
    /\ ~is_token_valid
    /\ call[Bg].failed
    /\ session = "none"
    /\ stop \in {"returned", "raised"}

\* C34: a /download request for a gofile share that is a folder is answered
\* with status 400, and no relay is started.
C34_FolderAnswered400 ==
    (dl_pc = "done" /\ dl_content = "folder") => (dl_status = 400 /\ rpc = "off")

SpecRelay == RelayInit /\ [][RelayNext]_vars

SpecShared == SharedInit /\ [][SharedNext]_vars

\* Every attempt ends (the origin answers or the connection fails, the body
\* ends or breaks) and every backoff sleep ends.
SpecRelayLive == SpecRelay /\ WF_vars(RelayNext)

SpecCred == CredInit /\ [][CredNext]_vars

\* Every refresh call ends (the session timeout bounds it), and a coroutine
\* that was handed the lock or was cancelled gets to run.  Only the holder of
\* the lock can be in one of these steps, so one fairness condition covers
\* every coroutine.
SpecCredLive ==
    /\ SpecCred
    /\ WF_vars(\E p \in Procs : LockGranted(p) \/ RefreshSucceeds(p) \/ RefreshFails(p))
    /\ WF_vars(TaskCancelled)

SpecDebrid == DebridInit /\ [][DebridNext]_vars

SpecDownload == DownloadInit /\ [][DownloadNext]_vars

====
